---- MODULE Spec2Model ----
(***************************************************************************)
(* The chart overlay component CandlestickChart (overlay variant): one     *)
(* React effect that, on every change of its props, removes the previous   *)
(* chart and builds a new one (candles, indicator lines, signal lines,     *)
(* support/resistance, trendlines, patterns, projections, the pattern      *)
(* time map and the crosshair tooltip handler).                            *)
(*                                                                         *)
(* Strings that the code takes apart are sequences of tokens: a timestamp  *)
(* is a sequence of integer chunks in which the token TSep stands for the  *)
(* character "T" and every other token for a run of characters without a   *)
(* "T" (a date "2024-01-0d" is the chunk d); a pattern type is a sequence  *)
(* of one-character strings.  An optional value (number | null) is a       *)
(* sequence of length 0 or 1.                                              *)
(*                                                                         *)
(* Every specification below runs the same actions (Refresh, the crosshair *)
(* handler, Unmount) and differs in the ChartData it draws at Init:        *)
(* SpecTrend varies the trendlines, SpecEntity the levels and projections, *)
(* SpecPattern the boundary points of one pattern, SpecHover the patterns  *)
(* that share days and names, SpecPointer the crosshair's point and the    *)
(* chart's width, SpecIndicator the null indicator values of the bars.  A  *)
(* refresh re-renders with the snapshot or without its technical analysis, *)
(* under any setting of the toggles the specification is about.  In        *)
(* SpecSnapshot the data source replaces the snapshot between refreshes.   *)
(* SpecSignal puts signals beside a well-formed or malformed analysis,     *)
(* SpecTime stamps a pattern's boundary points in three representations,   *)
(* and SpecVariant renders the overlay variant as the base variant of      *)
(* candlestick-chart.tsx is rendered.                                      *)
(***************************************************************************)
EXTENDS Integers, Sequences, FiniteSets, TLC

VARIABLES
    strict,           \* the charting library validates what it is handed (development build)
    feed,             \* the ChartData the data source currently returns
    mounted,          \* the component is mounted
    crashed,          \* an exception left the effect: React has torn the tree down
    props,            \* the props of the last committed render
    prims,            \* series and price lines of the live chart, in creation order
    patternTimeMap,   \* the time -> PatternHit[] map of the last effect run
    subscribed,       \* a crosshair handler is subscribed on the live chart
    cleanup,          \* the last effect run returned its cleanup function
    liveCharts,       \* charts created and not removed
    resizeListeners,  \* window resize listeners registered and not removed
    thrownAt,         \* the entity whose exception left the effect
    tooltip           \* the tooltip element: display, innerHTML, left, top

vars == <<strict, feed, mounted, crashed, props, prims, patternTimeMap,
          subscribed, cleanup, liveCharts, resizeListeners, thrownAt, tooltip>>

(***************************************************************************)
(* Strings                                                                 *)
(***************************************************************************)
TSep == 0

\* the token of a blank between a date and a time of day that are written
\* without a "T"
Blank == 32

\* A value that is not a number at run time (a JSON null where the declared
\* type says number): what the library's type assertions reject.
NaP == -1

IsNumber(v) == v # NaP

RECURSIVE SplitHead(_)
SplitHead(s) ==
    IF s = <<>> \/ Head(s) = TSep THEN <<>>
    ELSE <<Head(s)>> \o SplitHead(Tail(s))

\* ts.split("T")[0]
toTime(ts) == SplitHead(ts)

\* a < b on strings: code unit by code unit, a proper prefix first
RECURSIVE StrLess(_, _)
StrLess(a, b) ==
    IF b = <<>> THEN FALSE
    ELSE IF a = <<>> THEN TRUE
    ELSE IF Head(a) < Head(b) THEN TRUE
    ELSE IF Head(a) > Head(b) THEN FALSE
    ELSE StrLess(Tail(a), Tail(b))

StrGeq(a, b) == ~StrLess(a, b)

localeCompare(a, b) ==
    IF StrLess(a, b) THEN -1 ELSE IF StrLess(b, a) THEN 1 ELSE 0

\* pattern_type.replace(/_/g, " ")
ReplaceUnderscores(s) == [i \in 1..Len(s) |-> IF s[i] = "_" THEN " " ELSE s[i]]

toUpperCase(c) ==
    CASE c = "d" -> "D"
      [] c = "t" -> "T"
      [] c = "f" -> "F"
      [] OTHER -> c

\* .replace(/\b\w/g, c => c.toUpperCase()) on a string without underscores:
\* a letter is at a word boundary when it is first or follows a space
CapitalizeWords(s) ==
    [i \in 1..Len(s) |->
        IF s[i] # " " /\ (i = 1 \/ s[i - 1] = " ") THEN toUpperCase(s[i]) ELSE s[i]]

PatternName(pattern_type) == CapitalizeWords(ReplaceUnderscores(pattern_type))

(***************************************************************************)
(* The charting library, as the code relies on it: setData wants its       *)
(* points strictly ascending in time with numeric values, createPriceLine  *)
(* wants a numeric price.  A validating build throws on anything else; a   *)
(* production build takes it.                                              *)
(***************************************************************************)
StrictlyAscending(data) ==
    \A i \in 1..Len(data) - 1 : StrLess(data[i].time, data[i + 1].time)

\* a time string the library takes as a business day: "yyyy-mm-dd" alone
IsDateString(time) == Len(time) = 1

LibRejectsData(s, data) ==
    s /\ \/ ~StrictlyAscending(data)
         \/ \E i \in 1..Len(data) : ~IsNumber(data[i].value) \/ ~IsDateString(data[i].time)

LibRejectsPrice(s, price) == s /\ ~IsNumber(price)

NoOwner == [cat |-> "none", idx |-> 0]

Owner(cat, idx) == [cat |-> cat, idx |-> idx]

NoTitle == <<"", 0, <<>>>>

Series(kind, cat, idx, data, lineStyle, ok) ==
    [kind |-> kind, cat |-> cat, idx |-> idx, data |-> data, price |-> 0,
     title |-> NoTitle, lineStyle |-> lineStyle, ok |-> ok]

PriceLine(cat, idx, price, title, lineStyle) ==
    [kind |-> "priceLine", cat |-> cat, idx |-> idx, data |-> <<>>, price |-> price,
     title |-> title, lineStyle |-> lineStyle, ok |-> TRUE]

EmptyMap == [k \in {} |-> <<>>]

\* The effect's progress: what has been put on the chart, the pattern map,
\* the exception in flight (NoOwner: none), and the boundary_points array of
\* each pattern the loop has been through, as the iteration left it.
Machine0 ==
    [prims |-> <<>>, map |-> EmptyMap, subscribed |-> FALSE, err |-> NoOwner, points |-> <<>>]

Running(m) == m.err = NoOwner

\* chart.addSeries(...) followed by series.setData(data): the series is on
\* the chart before setData can throw
AddSeries(m, s, kind, cat, idx, data, lineStyle) ==
    IF ~Running(m) THEN m
    ELSE IF LibRejectsData(s, data)
         THEN [m EXCEPT !.prims = Append(@, Series(kind, cat, idx, data, lineStyle, FALSE)),
                        !.err = Owner(cat, idx)]
         ELSE [m EXCEPT !.prims = Append(@, Series(kind, cat, idx, data, lineStyle, TRUE))]

\* candleSeries.createPriceLine({price, title, lineStyle})
CreatePriceLine(m, s, cat, idx, price, title, lineStyle) ==
    IF ~Running(m) THEN m
    ELSE IF LibRejectsPrice(s, price) THEN [m EXCEPT !.err = Owner(cat, idx)]
    ELSE [m EXCEPT !.prims = Append(@, PriceLine(cat, idx, price, title, lineStyle))]

\* } catch { }
Catch(m) == [m EXCEPT !.err = NoOwner]

(***************************************************************************)
(* The effect body, block by block                                         *)
(***************************************************************************)
\* bars.map((b) => ({time: toTime(b.timestamp), open, high, low, close}));
\* value repeats close, the field the library checks on every series
CandleData(bars) ==
    [i \in 1..Len(bars) |->
        [time |-> toTime(bars[i].timestamp), open |-> bars[i].open, high |-> bars[i].high,
         low |-> bars[i].low, close |-> bars[i].close, value |-> bars[i].close]]

\* the indicator values of one field, bars.map((b) => b.<field>)
FieldValues(bars, field) ==
    [i \in 1..Len(bars) |->
        CASE field = "ema9" -> bars[i].ema9
          [] field = "ema21" -> bars[i].ema21
          [] field = "ema50" -> bars[i].ema50
          [] field = "ema200" -> bars[i].ema200
          [] field = "vwap" -> bars[i].vwap
          [] OTHER -> bars[i].rs_vs_spy]

\* keeps a value only when it is truthy
TruthyValue(v) == v # <<>> /\ v[1] # 0

\* values[i] !== null
NotNull(v) == v # <<>>

\* bars.map(non-null ? {time, value} : null).filter(d !== null)
RECURSIVE ProjectFrom(_, _, _)
ProjectFrom(bars, values, i) ==
    IF i > Len(bars) THEN <<>>
    ELSE (IF NotNull(values[i])
          THEN <<[time |-> toTime(bars[i].timestamp), value |-> values[i][1]]>>
          ELSE <<>>) \o ProjectFrom(bars, values, i + 1)

ProjectField(bars, values) == ProjectFrom(bars, values, 1)

(***************************************************************************)
(* The panels under the chart, each an effect of its own over the bars     *)
(***************************************************************************)
\* bars.filter((b) => b.rsi !== null).map((b) => ({time, value: b.rsi}))
rsiData(bars) ==
    LET kept == SelectSeq(bars, LAMBDA b : b.rsi # <<>>)
    IN  [k \in 1..Len(kept) |-> [time |-> toTime(kept[k].timestamp), value |-> kept[k].rsi[1]]]

\* bars.filter((b) => b.volume_sma20 !== null).map(...)
smaData(bars) ==
    LET kept == SelectSeq(bars, LAMBDA b : b.volume_sma20 # <<>>)
    IN  [k \in 1..Len(kept) |->
            [time |-> toTime(kept[k].timestamp), value |-> kept[k].volume_sma20[1]]]

\* RSIPanel's effect: the RSI line, then the price lines at 70 and 30
RSIPanel(bars, s) ==
    IF Len(bars) = 0 THEN Machine0
    ELSE LET m1 == AddSeries(Machine0, s, "line", "rsi", 0, rsiData(bars), 0)
             m2 == CreatePriceLine(m1, s, "overbought", 0, 70, NoTitle, 2)
         IN  CreatePriceLine(m2, s, "oversold", 0, 30, NoTitle, 2)

\* VolumePanel's effect: the histogram, then the SMA line when it has points
VolumePanel(bars, s) ==
    IF Len(bars) = 0 THEN Machine0
    ELSE LET m1 == AddSeries(Machine0, s, "histogram", "volume", 0,
                             [i \in 1..Len(bars) |->
                                 [time |-> toTime(bars[i].timestamp), value |-> bars[i].volume]],
                             0)
         IN  IF Len(smaData(bars)) > 0
             THEN AddSeries(m1, s, "line", "volume_sma20", 0, smaData(bars), 0)
             ELSE m1

addLine(m, s, bars, field, show) ==
    IF ~show THEN m
    ELSE AddSeries(m, s, "line", field, 0, ProjectField(bars, FieldValues(bars, field)), 0)

IndicatorLines(m, s, p) ==
    LET m1 == addLine(m, s, p.bars, "ema9", p.showEma9)
        m2 == addLine(m1, s, p.bars, "ema21", p.showEma21)
        m3 == addLine(m2, s, p.bars, "ema50", p.showEma50)
        m4 == addLine(m3, s, p.bars, "ema200", p.showEma200)
        m5 == addLine(m4, s, p.bars, "vwap", p.showVwap)
    IN  IF p.showRs
        THEN AddSeries(m5, s, "line", "rs", 0,
                       ProjectField(p.bars, FieldValues(p.bars, "rs_vs_spy")), 0)
        ELSE m5

\* for (const x of xs) candleSeries.createPriceLine(...): one request per
\* element, in order; an exception ends the loop and the effect
RECURSIVE CreateAll(_, _, _, _, _)
CreateAll(m, s, cat, reqs, i) ==
    IF i > Len(reqs) THEN m
    ELSE CreateAll(CreatePriceLine(m, s, cat, i, reqs[i].price, reqs[i].title,
                                   reqs[i].lineStyle),
                   s, cat, reqs, i + 1)

\* a loop that ends after the first signal
SignalLinesFirstOnly(m, s, signals) ==
    IF signals = <<>> THEN m
    ELSE CreatePriceLine(m, s, "signal", 1, signals[1].entry,
                         <<signals[1].action, 0, <<>>>>, 2)

SignalLines(m, s, signals) ==
    CreateAll(m, s, "signal",
              [i \in 1..Len(signals) |->
                  [price |-> signals[i].entry, title |-> <<signals[i].action, 0, <<>>>>,
                   lineStyle |-> 2]], 1)

LevelRequests(levels, letter) ==
    [i \in 1..Len(levels) |->
        [price |-> levels[i].price, title |-> <<letter, levels[i].touches, <<>>>>,
         lineStyle |-> 1]]

SupportResistanceBlock(m, s, p) ==
    IF p.showSupportResistance /\ p.technicalAnalysis # <<>>
    THEN LET ta == p.technicalAnalysis[1]
             m1 == CreateAll(m, s, "support", LevelRequests(ta.support_levels, "S"), 1)
         IN  CreateAll(m1, s, "resistance", LevelRequests(ta.resistance_levels, "R"), 1)
    ELSE m

\* Array.prototype.sort is stable: x goes behind every element that does not
\* compare greater than it
RECURSIVE InsertByTime(_, _)
InsertByTime(sorted, x) ==
    IF sorted = <<>> THEN <<x>>
    ELSE IF localeCompare(Head(sorted).time, x.time) > 0 THEN <<x>> \o sorted
    ELSE <<Head(sorted)>> \o InsertByTime(Tail(sorted), x)

RECURSIVE SortFrom(_, _, _)
SortFrom(data, acc, i) ==
    IF i > Len(data) THEN acc
    ELSE SortFrom(data, InsertByTime(acc, data[i]), i + 1)

\* .sort((a, b) => a.time.localeCompare(b.time))
SortByTime(data) == SortFrom(data, <<>>, 1)

\* a continuation re-sorted by time
ProjDataSorted(line) ==
    SortByTime(<<[time |-> toTime(line.end_time), value |-> line.end_price]>> \o
               [k \in 1..Len(line.projection) |->
                   [time |-> toTime(line.projection[k].time),
                    value |-> line.projection[k].price]])

\* [{time: endTime, value: end_price}, ...projection.map(toTime, price)]
ProjData(line) ==
    <<[time |-> toTime(line.end_time), value |-> line.end_price]>> \o
    [k \in 1..Len(line.projection) |->
        [time |-> toTime(line.projection[k].time), value |-> line.projection[k].price]]

TrendData(line) ==
    <<[time |-> toTime(line.start_time), value |-> line.start_price],
      [time |-> toTime(line.end_time), value |-> line.end_price]>>

\* skips only when start > end
SkipsOnlyReversed(line) == StrLess(toTime(line.end_time), toTime(line.start_time))

\* if (startTime >= endTime) continue;
SkipsTrendline(line) == StrGeq(toTime(line.start_time), toTime(line.end_time))

\* one iteration of the trendline loop, try { ... } catch { }
Trendline(m, s, line, i) ==
    IF SkipsTrendline(line) THEN m
    ELSE LET m1 == AddSeries(m, s, "line", "trendline", i, TrendData(line), 0)
             m2 == IF Len(line.projection) > 0
                   THEN AddSeries(m1, s, "line", "trendproj", i, ProjData(line), 2)
                   ELSE m1
         IN  Catch(m2)

RECURSIVE TrendlineLoop(_, _, _, _)
TrendlineLoop(m, s, lines, i) ==
    IF i > Len(lines) THEN m
    ELSE TrendlineLoop(Trendline(m, s, lines[i], i), s, lines, i + 1)

TrendlinesBlock(m, s, p) ==
    IF Running(m) /\ p.showTrendlines /\ p.technicalAnalysis # <<>>
    THEN TrendlineLoop(m, s, p.technicalAnalysis[1].trendlines, 1)
    ELSE m

\* boundary_points.map((p) => ({time: toTime(p.time), value: p.price}))
BoundaryData(pattern) ==
    [k \in 1..Len(pattern.boundary_points) |->
        [time |-> toTime(pattern.boundary_points[k].time),
         value |-> pattern.boundary_points[k].price]]

\* The arrays of one iteration: the pattern's own boundary_points and the
\* array the name sorted is bound to.
BoundaryHeap(pattern) == [input |-> pattern.boundary_points, sorted |-> <<>>]

\* [...pattern.boundary_points].map(...): a new array, the input untouched
MapCopy(h) == [h EXCEPT !.sorted = BoundaryData([boundary_points |-> h.input])]

\* sorts the pattern's own array as well
SortsInput(h) == [input |-> SortByTime(h.input), sorted |-> SortByTime(h.sorted)]

\* .sort((a, b) => a.time.localeCompare(b.time)) sorts in place the array it
\* is called on: the mapped copy
SortInPlace(h) == [h EXCEPT !.sorted = SortByTime(@)]

\* keeps the last of a run of equal times
KeepsLastAt(arr, i) == i = Len(arr) \/ arr[i].time # arr[i + 1].time

KeepsAt(arr, i) == i = 1 \/ arr[i].time # arr[i - 1].time

RECURSIVE DedupeFrom(_, _)
DedupeFrom(arr, i) ==
    IF i > Len(arr) THEN <<>>
    ELSE (IF KeepsAt(arr, i) THEN <<arr[i]>> ELSE <<>>) \o DedupeFrom(arr, i + 1)

\* no filter
DedupeNothing(sorted) == sorted

\* sorted.filter((pt, i, arr) => i === 0 || pt.time !== arr[i - 1].time)
Dedupe(sorted) == DedupeFrom(sorted, 1)

PatternHit(pattern, pt) ==
    [description |-> pattern.description, bias |-> pattern.bias,
     name |-> PatternName(pattern.pattern_type), price |-> pt.value]

\* never finds the name
HasNameNever(hits, name) == FALSE

\* existing.some((h) => h.name === patternName)
HasName(hits, name) == \E k \in 1..Len(hits) : hits[k].name = name

\* existing.unshift(hit)
Unshift(existing, hit) == <<hit>> \o existing

\* existing.push(hit)
Push(existing, hit) == Append(existing, hit)

\* patternTimeMap get / push / set for one point
Register(map, key, hit) ==
    IF key \in DOMAIN map
    THEN IF HasName(map[key], hit.name) THEN map
         ELSE [map EXCEPT ![key] = Push(@, hit)]
    ELSE [k \in DOMAIN map \cup {key} |-> IF k = key THEN <<hit>> ELSE map[k]]

RECURSIVE RegisterAll(_, _, _, _)
RegisterAll(map, pattern, deduped, k) ==
    IF k > Len(deduped) THEN map
    ELSE RegisterAll(Register(map, deduped[k].time, PatternHit(pattern, deduped[k])),
                     pattern, deduped, k + 1)

\* if (pattern.boundary_points.length >= 2)
HasShape(pattern) == Len(pattern.boundary_points) >= 2

\* a number is truthy unless it is 0 or NaN; null is not
Truthy(opt) == opt # <<>> /\ opt[1] # 0 /\ IsNumber(opt[1])

\* if (pattern.target_price)
HasTarget(pattern) == Truthy(pattern.target_price)

BiasMark(bias) ==
    IF bias = "bullish" THEN "up" ELSE IF bias = "bearish" THEN "down" ELSE "diamond"

\* `${mark} ${pattern.pattern_type.replace(/_/g, " ")}`
TargetTitle(pattern) ==
    <<BiasMark(pattern.bias), 0, ReplaceUnderscores(pattern.pattern_type)>>

\* one iteration of the pattern loop, try { ... } catch { }
Pattern(m, s, pattern, i) ==
    LET h == SortInPlace(MapCopy(BoundaryHeap(pattern)))
        deduped == Dedupe(h.sorted)
        m1 == IF HasShape(pattern) /\ Len(deduped) >= 2
              THEN AddSeries(m, s, "line", "pattern", i, deduped, 0)
              ELSE m
        m2 == IF HasShape(pattern) /\ Running(m1)
              THEN [m1 EXCEPT !.map = RegisterAll(@, pattern, deduped, 1)]
              ELSE m1
        m3 == IF HasTarget(pattern)
              THEN CreatePriceLine(m2, s, "target", i, pattern.target_price[1],
                                   TargetTitle(pattern), 3)
              ELSE m2
    IN  Catch([m3 EXCEPT !.points =
                  Append(@, IF HasShape(pattern) THEN h.input ELSE pattern.boundary_points)])

RECURSIVE PatternLoop(_, _, _, _)
PatternLoop(m, s, patterns, i) ==
    IF i > Len(patterns) THEN m
    ELSE PatternLoop(Pattern(m, s, patterns[i], i), s, patterns, i + 1)

\* a pattern loop that the handler could see after its first pattern only
PatternsBlockFirstOnly(m, s, p) ==
    IF Running(m) /\ p.showPatterns /\ p.technicalAnalysis # <<>>
          /\ p.technicalAnalysis[1].patterns # <<>>
    THEN Pattern(m, s, p.technicalAnalysis[1].patterns[1], 1)
    ELSE m

PatternsBlock(m, s, p) ==
    IF Running(m) /\ p.showPatterns /\ p.technicalAnalysis # <<>>
    THEN PatternLoop(m, s, p.technicalAnalysis[1].patterns, 1)
    ELSE m

\* subscribes whatever the size of the map
SubscribeAlways(m) == IF Running(m) THEN [m EXCEPT !.subscribed = TRUE] ELSE m

\* if (patternTimeMap.size > 0) chart.subscribeCrosshairMove(...)
SubscribeBlock(m) ==
    IF Running(m) /\ DOMAIN m.map # {} THEN [m EXCEPT !.subscribed = TRUE] ELSE m

\* Math.round(x) for x = n / d, d > 0: floor(x + 0.5).  A confidence is
\* given in thousandths and never on a half percent, where the binary
\* fraction the code multiplies is not the decimal one.
Round(n, d) == (2 * n + d) \div (2 * d)

\* a label that cuts the percentage off instead of rounding it
ProjectionTitleFloor(proj) ==
    <<proj.reason, (proj.confidence * 100) \div 1000, <<>>>>

\* `${proj.reason} (${Math.round(proj.confidence * 100)}%)`, the confidence
\* in thousandths
ProjectionTitle(proj) ==
    <<proj.reason, Round(proj.confidence * 100, 1000), <<>>>>

ProjectionsBlock(m, s, p) ==
    IF p.showProjections /\ p.technicalAnalysis # <<>>
    THEN LET projs == p.technicalAnalysis[1].projections
         IN  CreateAll(m, s, "projection",
                       [i \in 1..Len(projs) |->
                           [price |-> projs[i].price, title |-> ProjectionTitle(projs[i]),
                            lineStyle |-> 3]], 1)
    ELSE m

\* The effect body from createChart to fitContent, given non-empty bars
RenderPass(p, s) ==
    LET m1 == AddSeries(Machine0, s, "candles", "candles", 0, CandleData(p.bars), 0)
        m2 == IndicatorLines(m1, s, p)
        m3 == SignalLines(m2, s, p.signals)
        m4 == SupportResistanceBlock(m3, s, p)
        m5 == TrendlinesBlock(m4, s, p)
        m6 == PatternsBlock(m5, s, p)
        m7 == SubscribeBlock(m6)
    IN  ProjectionsBlock(m7, s, p)

(***************************************************************************)
(* The crosshair handler                                                   *)
(***************************************************************************)
TooltipWidth == 280
CursorOffset == 16
FlipOffset == 296

TooltipHidden == [display |-> "none", innerHTML |-> <<>>, left |-> 0, top |-> 0]

\* patternTimeMap.get(timeStr), undefined read as no hits
Lookup(map, key) == IF key \in DOMAIN map THEN map[key] ELSE <<>>

Badge(bias) ==
    IF bias = "bullish" THEN "green" ELSE IF bias = "bearish" THEN "red" ELSE "purple"

\* the blocks in reverse order
TooltipLinesReversed(hits) ==
    [k \in 1..Len(hits) |->
        <<Badge(hits[Len(hits) + 1 - k].bias), hits[Len(hits) + 1 - k].name,
          hits[Len(hits) + 1 - k].description>>]

\* hits.map(h => `<div>... ${badge} ${h.name} ... ${h.description} ...</div>`).join("")
TooltipLines(hits) ==
    [k \in 1..Len(hits) |-> <<Badge(hits[k].bias), hits[k].name, hits[k].description>>]

\* !param.time: undefined or the empty string
NoTime(param) == param.time = <<>> \/ param.time[1] = <<>>

TooltipLeft(x, width) ==
    IF x + CursorOffset + TooltipWidth > width THEN x - FlipOffset ELSE x + CursorOffset

\* no clamp
TopUnclamped(y) == y - CursorOffset

\* let top = param.point.y - 16; if (top < 0) top = 0;
TooltipTop(y) == IF y - CursorOffset < 0 THEN 0 ELSE y - CursorOffset

HandleCrosshairMove(tt, map, param, width) ==
    IF NoTime(param) \/ param.point = <<>> THEN [tt EXCEPT !.display = "none"]
    ELSE LET hits == Lookup(map, param.time[1])
         IN  IF Len(hits) = 0 THEN [tt EXCEPT !.display = "none"]
             ELSE [display |-> "block", innerHTML |-> TooltipLines(hits),
                   left |-> TooltipLeft(param.point[1].x, width),
                   top |-> TooltipTop(param.point[1].y)]

\* the times on the chart's time scale: those of every series' data
TimeScale(ps) ==
    UNION {{ps[i].data[k].time : k \in 1..Len(ps[i].data)} :
              i \in {j \in 1..Len(ps) : ps[j].kind # "priceLine" /\ ps[j].ok}}

(***************************************************************************)
(* Props and actions                                                       *)
(***************************************************************************)
MkProps(bars, signals, ta, ind, sr, tl, pt, pj) ==
    [bars |-> bars, signals |-> signals, technicalAnalysis |-> ta,
     showEma9 |-> ind.ema9, showEma21 |-> ind.ema21, showEma50 |-> ind.ema50,
     showEma200 |-> ind.ema200, showVwap |-> ind.vwap, showRs |-> ind.rs,
     showSupportResistance |-> sr, showTrendlines |-> tl, showPatterns |-> pt,
     showProjections |-> pj]

\* the page's initial indicator state
DefaultIndicators ==
    [ema9 |-> TRUE, ema21 |-> TRUE, ema50 |-> FALSE, ema200 |-> FALSE, vwap |-> FALSE,
     rs |-> FALSE]

NoProps == MkProps(<<>>, <<>>, <<>>, DefaultIndicators, FALSE, FALSE, FALSE, FALSE)

InitCommon ==
    /\ strict \in BOOLEAN
    /\ mounted = FALSE
    /\ crashed = FALSE
    /\ props = NoProps
    /\ prims = <<>>
    /\ patternTimeMap = EmptyMap
    /\ subscribed = FALSE
    /\ cleanup = FALSE
    /\ liveCharts = 0
    /\ resizeListeners = 0
    /\ thrownAt = NoOwner
    /\ tooltip = TooltipHidden

\* the previous chart is never removed
ChartsKept == liveCharts

\* what the cleanup of the previous effect run leaves: return () => {
\* window.removeEventListener("resize", handleResize); chart.remove(); }
ChartsAfterCleanup == IF cleanup THEN liveCharts - 1 ELSE liveCharts
ListenersAfterCleanup == IF cleanup THEN resizeListeners - 1 ELSE resizeListeners

\* The props objects once the effect has run on them: bars, signals, levels,
\* trendlines and projections are only read (map, filter, spread, for-of);
\* each pattern's boundary_points is what its iteration left.
InputsAfter(p, m) ==
    IF p.technicalAnalysis = <<>> THEN p
    ELSE [p EXCEPT !.technicalAnalysis[1].patterns =
             [i \in 1..Len(@) |->
                 IF i <= Len(m.points) THEN [@[i] EXCEPT !.boundary_points = m.points[i]]
                 ELSE @[i]]]

\* A render with props p commits (mount or update): the previous effect's
\* cleanup runs, then the effect body.
Refresh(p) ==
    /\ ~crashed
    /\ UNCHANGED <<strict, feed>>
    /\ IF Len(p.bars) = 0
       THEN /\ props' = p
            /\ mounted' = TRUE
            /\ prims' = <<>>
            /\ patternTimeMap' = EmptyMap
            /\ subscribed' = FALSE
            /\ cleanup' = FALSE
            /\ liveCharts' = ChartsAfterCleanup
            /\ resizeListeners' = ListenersAfterCleanup
            /\ UNCHANGED <<crashed, thrownAt, tooltip>>
       ELSE LET r == RenderPass(p, strict)
            IN  /\ props' = InputsAfter(p, r)
                /\ prims' = r.prims
                /\ patternTimeMap' = r.map
                /\ subscribed' = r.subscribed
                /\ liveCharts' = ChartsAfterCleanup + 1
                /\ IF Running(r)
                   THEN /\ mounted' = TRUE
                        /\ cleanup' = TRUE
                        /\ resizeListeners' = ListenersAfterCleanup + 1
                        /\ UNCHANGED <<crashed, thrownAt, tooltip>>
                   ELSE /\ mounted' = FALSE
                        /\ crashed' = TRUE
                        /\ thrownAt' = r.err
                        /\ cleanup' = FALSE
                        /\ resizeListeners' = ListenersAfterCleanup
                        /\ tooltip' = TooltipHidden

\* the tooltip element after the live chart reports a crosshair move: the
\* handler runs when one was subscribed (line 307), otherwise nothing does
DeliverCrosshairMove(param, width) ==
    IF subscribed THEN HandleCrosshairMove(tooltip, patternTimeMap, param, width)
    ELSE tooltip

\* a handler that takes the bucket it shows out of the map
CrosshairMoveConsuming(param, width) ==
    /\ mounted
    /\ liveCharts > 0
    /\ tooltip' = DeliverCrosshairMove(param, width)
    /\ patternTimeMap' =
          IF subscribed /\ ~NoTime(param) /\ param.time[1] \in DOMAIN patternTimeMap
          THEN [patternTimeMap EXCEPT ![param.time[1]] = <<>>]
          ELSE patternTimeMap
    /\ UNCHANGED <<strict, feed, mounted, crashed, props, prims,
                   subscribed, cleanup, liveCharts, resizeListeners, thrownAt>>

\* the crosshair moves on the live chart
CrosshairMove(param, width) ==
    /\ mounted
    /\ liveCharts > 0
    /\ tooltip' = DeliverCrosshairMove(param, width)
    /\ UNCHANGED <<strict, feed, mounted, crashed, props, prims, patternTimeMap,
                   subscribed, cleanup, liveCharts, resizeListeners, thrownAt>>

\* the parent stops rendering the component: cleanup, and the tooltip
\* element goes with the component
Unmount ==
    /\ mounted
    /\ mounted' = FALSE
    /\ props' = NoProps
    /\ prims' = <<>>
    /\ patternTimeMap' = EmptyMap
    /\ subscribed' = FALSE
    /\ cleanup' = FALSE
    /\ liveCharts' = ChartsAfterCleanup
    /\ resizeListeners' = ListenersAfterCleanup
    /\ tooltip' = TooltipHidden
    /\ UNCHANGED <<strict, feed, crashed, thrownAt>>

(***************************************************************************)
(* Inputs                                                                  *)
(***************************************************************************)
NoValue == <<>>

Bar(d) ==
    [timestamp |-> <<d, TSep, 0>>, open |-> 100 + d, high |-> 102 + d, low |-> 99 + d,
     close |-> 101 + d, volume |-> 1000 + d, ema9 |-> <<100 + d>>, ema21 |-> NoValue,
     ema50 |-> NoValue, ema200 |-> NoValue, rsi |-> NoValue, macd_line |-> NoValue,
     macd_signal |-> NoValue, macd_hist |-> NoValue, atr |-> NoValue,
     volume_sma20 |-> NoValue, vwap |-> NoValue, rs_vs_spy |-> NoValue]

Bars(n) == [d \in 1..n |-> Bar(d)]

EmptyTA ==
    [support_levels |-> <<>>, resistance_levels |-> <<>>, trendlines |-> <<>>,
     patterns |-> <<>>, projections |-> <<>>]

Feed(bars, signals, ta) == [bars |-> bars, signals |-> signals, technical_analysis |-> ta]

\* sequences over S of length at most n
SeqsUpTo(S, n) == UNION {[1..k -> S] : k \in 0..n}

(***************************************************************************)
(* SpecTrend: trendlines                                                   *)
(***************************************************************************)
MaxTrendDay == 3
MaxProjLen == 2

TrendDays == 1..MaxTrendDay

\* start and end carry a time of day, projection points are plain dates
TrendLine(d1, d2, proj) ==
    [start_time |-> <<d1, TSep, 9>>, start_price |-> 10,
     end_time |-> <<d2, TSep, 16>>, end_price |-> 12,
     touches |-> 2, trend_type |-> "uptrend", projection |-> proj]

ProjPoints == {[time |-> <<d>>, price |-> 13 + d] : d \in TrendDays}

TrendLines ==
    {TrendLine(d1, d2, proj) :
        d1 \in TrendDays, d2 \in TrendDays, proj \in SeqsUpTo(ProjPoints, MaxProjLen)}

CompanionLine == TrendLine(1, 2, <<>>)

TrendFeeds ==
    {Feed(Bars(2), <<>>, <<[EmptyTA EXCEPT !.trendlines = ls]>>) :
        ls \in {<<l>> : l \in TrendLines}
               \cup {<<l, CompanionLine>> : l \in TrendLines}
               \cup {<<CompanionLine, l>> : l \in TrendLines}}

InitTrend == InitCommon /\ feed \in TrendFeeds

RefreshTrend ==
    \E on \in BOOLEAN, present \in BOOLEAN :
        Refresh(MkProps(feed.bars, feed.signals,
                        IF present THEN feed.technical_analysis ELSE <<>>,
                        DefaultIndicators, FALSE, on, FALSE, FALSE))

NextTrend == RefreshTrend \/ Unmount

SpecTrend == InitTrend /\ [][NextTrend]_vars

\* the chart of the last refresh is live
Rendered == mounted /\ Len(props.bars) > 0

PrimsOf(cat, idx) == {k \in 1..Len(prims) : prims[k].cat = cat /\ prims[k].idx = idx}

ShownTrendlines ==
    IF Rendered /\ props.showTrendlines /\ props.technicalAnalysis # <<>>
    THEN props.technicalAnalysis[1].trendlines
    ELSE <<>>

Reversed(line) == StrGeq(toTime(line.start_time), toTime(line.end_time))

EndPoint(line) == [time |-> toTime(line.end_time), value |-> line.end_price]

StartPoint(line) == [time |-> toTime(line.start_time), value |-> line.start_price]

\* C1: with the trendlines toggle on, a trendline whose normalized start is
\* not before its normalized end puts nothing on the chart (no line, no
\* continuation) and raises nothing, and every other trendline still gets
\* its line.
C1_ReversedTrendlineSkipped ==
    /\ thrownAt.cat \notin {"trendline", "trendproj"}
    /\ \A i \in 1..Len(ShownTrendlines) :
          IF Reversed(ShownTrendlines[i])
          THEN PrimsOf("trendline", i) = {} /\ PrimsOf("trendproj", i) = {}
          ELSE PrimsOf("trendline", i) # {}

C1_Witness ==
    \E i, j \in 1..Len(ShownTrendlines) :
        /\ Reversed(ShownTrendlines[i])
        /\ toTime(ShownTrendlines[i].start_time) # toTime(ShownTrendlines[i].end_time)
        /\ Len(ShownTrendlines[i].projection) > 0
        /\ ~Reversed(ShownTrendlines[j])
        /\ i < j
        /\ PrimsOf("trendline", j) # {}

\* C2: a trendline with normalized start before end hands the chart exactly
\* one two-point line (start, end); with a non-empty projection exactly one
\* continuation, the end point followed by the projection points in the
\* order supplied; with an empty projection no continuation.
C2_TrendlineAndContinuation ==
    \A i \in 1..Len(ShownTrendlines) :
        LET line == ShownTrendlines[i]
            n == Len(line.projection)
        IN  ~Reversed(line) =>
              /\ Cardinality(PrimsOf("trendline", i)) = 1
              /\ \A k \in PrimsOf("trendline", i) :
                    prims[k].data = <<StartPoint(line), EndPoint(line)>>
              /\ Cardinality(PrimsOf("trendproj", i)) = IF n > 0 THEN 1 ELSE 0
              /\ \A k \in PrimsOf("trendproj", i) :
                    /\ Len(prims[k].data) = n + 1
                    /\ prims[k].data[1] = EndPoint(line)
                    /\ \A q \in 1..n :
                          prims[k].data[q + 1] =
                              [time |-> toTime(line.projection[q].time),
                               value |-> line.projection[q].price]

\* a continuation whose points are supplied out of time order
C2_Witness ==
    \E i \in 1..Len(ShownTrendlines) :
        /\ ~Reversed(ShownTrendlines[i])
        /\ Len(ShownTrendlines[i].projection) = 2
        /\ StrLess(toTime(ShownTrendlines[i].projection[2].time),
                   toTime(ShownTrendlines[i].projection[1].time))
        /\ PrimsOf("trendproj", i) # {}

(***************************************************************************)
(* SpecEntity: levels and projections, some of them malformed, beside one  *)
(* trendline and two patterns                                              *)
(***************************************************************************)
MaxLevels == 2
MaxProjections == 2

Level(price, type) ==
    [price |-> price, strength |-> 1, touches |-> 3, zone_top |-> 51, zone_bottom |-> 49,
     level_type |-> type]

SupportLevels == {Level(50, "support"), Level(NaP, "support")}

ResistanceLists ==
    {<<>>, <<Level(60, "resistance")>>, <<Level(NaP, "resistance")>>}

Projection(price, confidence, reason) ==
    [price |-> price, confidence |-> confidence, reason |-> reason,
     projection_type |-> "bullish"]

Projections ==
    {Projection(70, 286, "measured move"), Projection(NaP, 500, "gap fill"),
     Projection(72, 996, "fib")}

ChartPattern(type, target, points, description, bias) ==
    [pattern_type |-> type, confidence |-> 800, target_price |-> target,
     boundary_points |-> points, description |-> description, bias |-> bias]

Point(time, price) == [time |-> time, price |-> price]

\* a trendline whose continuation goes back in time, a pattern with a
\* boundary price that is not a number, and a well-formed pattern
EntityTrendlines ==
    <<TrendLine(1, 2, <<Point(<<3>>, 16), Point(<<2>>, 15)>>), CompanionLine>>

EntityPatterns ==
    <<ChartPattern(<<"f">>, <<90>>, <<Point(<<1>>, 20), Point(<<2>>, NaP)>>, "flag", "bullish"),
      ChartPattern(<<"d", "_", "t">>, <<80>>, <<Point(<<2>>, 30), Point(<<1>>, 31)>>,
                   "double top", "bearish")>>

EntityFeeds ==
    {Feed(Bars(2), <<>>,
          <<[support_levels |-> sup, resistance_levels |-> res,
             trendlines |-> EntityTrendlines, patterns |-> EntityPatterns,
             projections |-> pj]>>) :
        sup \in SeqsUpTo(SupportLevels, MaxLevels), res \in ResistanceLists,
        pj \in SeqsUpTo(Projections, MaxProjections)}

InitEntity == InitCommon /\ feed \in EntityFeeds

RefreshEntity ==
    \E sr \in BOOLEAN, pj \in BOOLEAN, present \in BOOLEAN :
        Refresh(MkProps(feed.bars, feed.signals,
                        IF present THEN feed.technical_analysis ELSE <<>>,
                        DefaultIndicators, sr, TRUE, TRUE, pj))

NextEntity == RefreshEntity \/ Unmount

SpecEntity == InitEntity /\ [][NextEntity]_vars

TA == props.technicalAnalysis[1]

HasTA == props.technicalAnalysis # <<>>

\* the entities of an enabled category that are well formed are on the chart
WellFormedRendered ==
    (Rendered /\ HasTA) =>
      /\ props.showSupportResistance =>
            /\ \A i \in 1..Len(TA.support_levels) :
                  IsNumber(TA.support_levels[i].price) => PrimsOf("support", i) # {}
            /\ \A i \in 1..Len(TA.resistance_levels) :
                  IsNumber(TA.resistance_levels[i].price) => PrimsOf("resistance", i) # {}
      /\ props.showProjections =>
            \A i \in 1..Len(TA.projections) :
                IsNumber(TA.projections[i].price) => PrimsOf("projection", i) # {}
      /\ props.showTrendlines =>
            \A i \in 1..Len(TA.trendlines) :
                ~Reversed(TA.trendlines[i]) => PrimsOf("trendline", i) # {}
      /\ props.showPatterns =>
            \A i \in 1..Len(TA.patterns) :
                (\A k \in 1..Len(TA.patterns[i].boundary_points) :
                    IsNumber(TA.patterns[i].boundary_points[k].price))
                    => PrimsOf("target", i) # {}

\* C3: a construction error of one entity, of whichever kind, is caught at
\* that entity: no exception leaves the render pass, and the other entities
\* of the enabled categories are rendered.
C3_EntityFailureIsolated == ~crashed /\ WellFormedRendered

(***************************************************************************)
(* SpecPattern: one pattern, its boundary points in every order            *)
(***************************************************************************)
MaxPatternDay == 3
MaxPoints == 3

PatternDays == 1..MaxPatternDay

\* the k-th boundary point on day d: odd positions are plain dates, even
\* ones carry a time of day; the price tells the positions apart
BoundaryPoint(k, d) ==
    Point(IF k % 2 = 1 THEN <<d>> ELSE <<d, TSep, 12>>, 20 + k)

BoundaryLists ==
    UNION {{[k \in 1..n |-> BoundaryPoint(k, ds[k])] : ds \in [1..n -> PatternDays]} :
              n \in 0..MaxPoints}

PatternFeeds ==
    {Feed(Bars(2), <<>>,
          <<[EmptyTA EXCEPT !.patterns =
                <<ChartPattern(<<"d", "_", "t">>, target, pts, "double top", "bearish")>>]>>) :
        target \in {<<>>, <<0>>, <<90>>}, pts \in BoundaryLists}

InitPattern == InitCommon /\ feed \in PatternFeeds

RefreshPattern ==
    \E on \in BOOLEAN, present \in BOOLEAN :
        Refresh(MkProps(feed.bars, feed.signals,
                        IF present THEN feed.technical_analysis ELSE <<>>,
                        DefaultIndicators, FALSE, FALSE, on, FALSE))

\* the crosshair moves to a time of the time scale, or leaves the chart
Pointer ==
    \E time \in {<<>>} \cup {<<t>> : t \in TimeScale(prims)},
       point \in {<<>>, <<[x |-> 100, y |-> 50]>>} :
        CrosshairMove([time |-> time, point |-> point], 600)

NextPattern == RefreshPattern \/ Pointer \/ Unmount

SpecPattern == InitPattern /\ [][NextPattern]_vars

ShownPatterns ==
    IF Rendered /\ props.showPatterns /\ HasTA THEN TA.patterns ELSE <<>>

\* the normalized times of a pattern's boundary points
TimesOf(pattern) ==
    {toTime(pattern.boundary_points[k].time) : k \in 1..Len(pattern.boundary_points)}

\* the price of the first supplied boundary point of the pattern on time t
FirstPriceAt(pattern, t) ==
    LET ks == {k \in 1..Len(pattern.boundary_points) :
                  toTime(pattern.boundary_points[k].time) = t}
        k0 == CHOOSE k \in ks : \A q \in ks : k <= q
    IN  pattern.boundary_points[k0].price

RegisteredAt(pattern, t) ==
    /\ t \in DOMAIN patternTimeMap
    /\ \E h \in 1..Len(patternTimeMap[t]) :
          patternTimeMap[t][h].name = PatternName(pattern.pattern_type)

\* C4: with the patterns toggle on, the times at which a pattern is in the
\* hit-index are exactly the normalized times of its boundary points,
\* whatever their number (0 and 1 included).
C4_HitTimesAreBoundaryTimes ==
    /\ \A i \in 1..Len(ShownPatterns) :
          \A t \in TimesOf(ShownPatterns[i]) : RegisteredAt(ShownPatterns[i], t)
    /\ Len(ShownPatterns) > 0 =>
          DOMAIN patternTimeMap = UNION {TimesOf(ShownPatterns[i]) : i \in 1..Len(ShownPatterns)}

\* C5: a pattern left with fewer than two points after normalization and
\* de-duplication draws no polyline, but its points are in the hit-index
\* and its target price line is there when a target price is present
\* (read here as a non-zero number, the weakest reading).
C5_DegeneratePatternStillRegistered ==
    \A i \in 1..Len(ShownPatterns) :
        LET pattern == ShownPatterns[i]
        IN  Cardinality(TimesOf(pattern)) < 2 =>
              /\ PrimsOf("pattern", i) = {}
              /\ \A t \in TimesOf(pattern) : RegisteredAt(pattern, t)
              /\ (pattern.target_price # <<>> /\ pattern.target_price[1] > 0) =>
                    Cardinality(PrimsOf("target", i)) = 1

\* C6: every pattern polyline on the chart has at least two points and
\* strictly increasing normalized times.
C6_PolylineStrictlyIncreasing ==
    \A k \in 1..Len(prims) :
        prims[k].cat = "pattern" =>
          /\ Len(prims[k].data) >= 2
          /\ \A q \in 1..Len(prims[k].data) - 1 :
                StrLess(prims[k].data[q].time, prims[k].data[q + 1].time)

\* a polyline drawn from points supplied out of order, two on one day
C6_Witness ==
    \E i \in 1..Len(ShownPatterns) :
        LET bp == ShownPatterns[i].boundary_points
        IN  /\ Len(bp) = 3
            /\ StrLess(toTime(bp[2].time), toTime(bp[1].time))
            /\ toTime(bp[3].time) = toTime(bp[2].time)
            /\ PrimsOf("pattern", i) # {}

\* C7: for a pattern with at least two boundary points, the hit-index and
\* the polyline hold one point per distinct normalized time, in ascending
\* time, each with the price of the first supplied point on that time.
C7_SortDedupeKeepsFirst ==
    \A i \in 1..Len(ShownPatterns) :
        LET pattern == ShownPatterns[i]
            times == TimesOf(pattern)
        IN  (Len(ShownPatterns) = 1 /\ Len(pattern.boundary_points) >= 2) =>
              /\ DOMAIN patternTimeMap = times
              /\ \A t \in times :
                    /\ Len(patternTimeMap[t]) = 1
                    /\ patternTimeMap[t][1].price = FirstPriceAt(pattern, t)
              /\ Cardinality(PrimsOf("pattern", i)) = IF Cardinality(times) >= 2 THEN 1 ELSE 0
              /\ \A k \in PrimsOf("pattern", i) :
                    /\ Len(prims[k].data) = Cardinality(times)
                    /\ \A q \in 1..Len(prims[k].data) :
                          /\ prims[k].data[q].time \in times
                          /\ prims[k].data[q].value =
                                 FirstPriceAt(pattern, prims[k].data[q].time)
                          /\ q > 1 => StrLess(prims[k].data[q - 1].time,
                                              prims[k].data[q].time)

\* scenario C: points on days 3, 1, 1 give a two-point polyline and one hit
\* on day 1 and one on day 3
C7_Witness ==
    /\ Len(ShownPatterns) = 1
    /\ LET bp == ShownPatterns[1].boundary_points
       IN  /\ Len(bp) = 3
           /\ toTime(bp[1].time) = <<3>>
           /\ toTime(bp[2].time) = <<1>>
           /\ toTime(bp[3].time) = <<1>>
    /\ DOMAIN patternTimeMap = {<<1>>, <<3>>}
    /\ \E k \in PrimsOf("pattern", 1) : Len(prims[k].data) = 2

\* C18: a render pass leaves its inputs as supplied: after any refresh the
\* bars, the signals and the technicalAnalysis the component holds are those
\* of the data source, every pattern's boundary_points and every trendline's
\* projection in the order and with the content supplied.
C18_InputsNotMutated ==
    mounted =>
      /\ props.bars = feed.bars
      /\ props.signals = feed.signals
      /\ HasTA =>
            /\ props.technicalAnalysis = feed.technical_analysis
            /\ \A i \in 1..Len(TA.patterns) :
                  TA.patterns[i].boundary_points =
                      feed.technical_analysis[1].patterns[i].boundary_points
            /\ \A i \in 1..Len(TA.trendlines) :
                  TA.trendlines[i].projection =
                      feed.technical_analysis[1].trendlines[i].projection

\* a polyline drawn in time order from boundary points supplied out of
\* order, which the pattern still holds as supplied
C18_Witness ==
    \E i \in 1..Len(ShownPatterns) :
        LET bp == ShownPatterns[i].boundary_points
        IN  /\ Len(bp) = 3
            /\ StrLess(toTime(bp[3].time), toTime(bp[2].time))
            /\ StrLess(toTime(bp[2].time), toTime(bp[1].time))
            /\ \E k \in PrimsOf("pattern", i) :
                  /\ Len(prims[k].data) = 3
                  /\ prims[k].data[1].time = toTime(bp[3].time)

(***************************************************************************)
(* SpecHover: several patterns sharing days and names, and the crosshair   *)
(***************************************************************************)
MaxPatterns == 2

\* "d_t" and "d t" have the same display name
PatternTypes == {<<"d", "_", "t">>, <<"d", " ", "t">>, <<"f">>}

DayPairs == {<<1, 2>>, <<2, 3>>, <<3, 1>>}

DescriptionOf(i) ==
    CASE i = 1 -> "first" [] i = 2 -> "second" [] i = 3 -> "third" [] OTHER -> "later"

BiasOf(i) ==
    CASE i = 1 -> "bullish" [] i = 2 -> "bearish" [] OTHER -> "neutral"

\* the i-th pattern of a list: its description, bias and prices tell it
\* apart from the others
HoverPattern(i, type, days) ==
    ChartPattern(type, <<>>,
                 <<Point(<<days[1], TSep, 12>>, 10 * i + 1), Point(<<days[2]>>, 10 * i + 2)>>,
                 DescriptionOf(i), BiasOf(i))

HoverLists ==
    UNION {{[i \in 1..n |-> HoverPattern(i, c[i][1], c[i][2])] :
               c \in [1..n -> PatternTypes \X DayPairs]} : n \in 0..MaxPatterns}

HoverFeeds ==
    {Feed(Bars(2), <<>>, <<[EmptyTA EXCEPT !.patterns = ps]>>) : ps \in HoverLists}

InitHover == InitCommon /\ feed \in HoverFeeds

RefreshHover ==
    \E on \in BOOLEAN, present \in BOOLEAN :
        Refresh(MkProps(feed.bars, feed.signals,
                        IF present THEN feed.technical_analysis ELSE <<>>,
                        DefaultIndicators, FALSE, FALSE, on, FALSE))

NextHover == RefreshHover \/ Pointer \/ Unmount

SpecHover == InitHover /\ [][NextHover]_vars

\* the patterns, in list order, that register on time t under display name n
Registrants(t, n) ==
    {i \in 1..Len(ShownPatterns) :
        /\ PatternName(ShownPatterns[i].pattern_type) = n
        /\ Len(ShownPatterns[i].boundary_points) >= 2
        /\ t \in TimesOf(ShownPatterns[i])}

FirstRegistrant(t, n) == CHOOSE i \in Registrants(t, n) : \A j \in Registrants(t, n) : i <= j

\* C8: two annotations with the same label on the same time leave one entry
\* in that time's bucket, the first registered: it carries the description,
\* bias and price of the first pattern of that label touching the time.
C8_FirstOfALabelIsKept ==
    \A t \in DOMAIN patternTimeMap :
        LET bucket == patternTimeMap[t]
        IN  /\ \A a, b \in 1..Len(bucket) : a # b => bucket[a].name # bucket[b].name
            /\ \A a \in 1..Len(bucket) :
                  /\ Registrants(t, bucket[a].name) # {}
                  /\ LET first == ShownPatterns[FirstRegistrant(t, bucket[a].name)]
                     IN  /\ bucket[a].description = first.description
                         /\ bucket[a].bias = first.bias
                         /\ bucket[a].price = FirstPriceAt(first, t)

\* scenario D: two patterns of one type with different descriptions touch
\* one day, and the day's bucket holds the first one only
C8_Witness ==
    \E t \in DOMAIN patternTimeMap :
        /\ Len(ShownPatterns) = 2
        /\ ShownPatterns[1].pattern_type = ShownPatterns[2].pattern_type
        /\ ShownPatterns[1].description # ShownPatterns[2].description
        /\ t \in TimesOf(ShownPatterns[1]) \cap TimesOf(ShownPatterns[2])
        /\ Len(patternTimeMap[t]) = 1
        /\ patternTimeMap[t][1].description = ShownPatterns[1].description

AllTimes == {<<d>> : d \in 1..4}

\* the display names registered on time t
NamesAt(t) ==
    {PatternName(ShownPatterns[i].pattern_type) :
        i \in {j \in 1..Len(ShownPatterns) :
                  Len(ShownPatterns[j].boundary_points) >= 2 /\ t \in TimesOf(ShownPatterns[j])}}

\* C9: lookup(t) returns the retained annotations in the order of their
\* patterns in technicalAnalysis.patterns, one per label registered on t,
\* and nothing when nothing was registered on t.
C9_LookupInRegistrationOrder ==
    \A t \in AllTimes :
        LET hits == Lookup(patternTimeMap, t)
        IN  /\ Len(hits) = Cardinality(NamesAt(t))
            /\ \A a \in 1..Len(hits) : hits[a].name \in NamesAt(t)
            /\ \A a, b \in 1..Len(hits) :
                  a < b => FirstRegistrant(t, hits[a].name) < FirstRegistrant(t, hits[b].name)

\* a day with two annotations of different labels, and a day with none
C9_Witness ==
    /\ \E t \in AllTimes : Len(Lookup(patternTimeMap, t)) = 2
    /\ \E t \in AllTimes : Len(Lookup(patternTimeMap, t)) = 0
    /\ DOMAIN patternTimeMap # {}

OverlayCats ==
    {"support", "resistance", "trendline", "trendproj", "pattern", "target", "projection"}

\* C10: while the technicalAnalysis of the last refresh is absent, the chart
\* holds no analytical overlay, the hit-index is empty, and the tooltip is
\* hidden.
C10_AbsentAnalysisHidesEverything ==
    (mounted /\ ~HasTA) =>
      /\ \A k \in 1..Len(prims) : prims[k].cat \notin OverlayCats
      /\ patternTimeMap = EmptyMap
      /\ ~subscribed
      /\ tooltip.display = "none"

(***************************************************************************)
(* The tooltip as a two-state machine (hidden, shown) driven by crosshair  *)
(* moves                                                                   *)
(***************************************************************************)
\* the crosshair reports: no time, the empty time, or a day; with or without
\* a point
HoverParams ==
    {[time |-> time, point |-> point] :
        time \in {<<>>, <<<<>>>>} \cup {<<t>> : t \in AllTimes},
        point \in {<<>>, <<[x |-> 100, y |-> 50]>>}}

HoverWidth == 600

\* C12: on a live chart, whatever the tooltip shows, a crosshair move that
\* reports no time, or a time with nothing registered in the hit-index,
\* leaves the tooltip hidden.
C12_NoHitHides ==
    (mounted /\ liveCharts > 0) =>
        \A param \in HoverParams :
            (NoTime(param) \/ Lookup(patternTimeMap, param.time[1]) = <<>>) =>
                DeliverCrosshairMove(param, HoverWidth).display = "none"

\* the crosshair reports with a time and a point
HitParams == {param \in HoverParams : ~NoTime(param) /\ param.point # <<>>}

Marker(bias) ==
    CASE bias = "bullish" -> "green" [] bias = "bearish" -> "red" [] OTHER -> "purple"

\* C13: a crosshair move at a time whose bucket is not empty shows the
\* tooltip with one block per annotation of the bucket, in bucket order,
\* each the bias marker, the name and the description; this holds whatever
\* the tooltip showed before, so a move to another such time replaces the
\* content by that of its bucket.
C13_HitShowsBucket ==
    (mounted /\ liveCharts > 0) =>
        \A param \in HitParams :
            LET hits == Lookup(patternTimeMap, param.time[1])
                shown == DeliverCrosshairMove(param, HoverWidth)
            IN  Len(hits) > 0 =>
                  /\ shown.display = "block"
                  /\ Len(shown.innerHTML) = Len(hits)
                  /\ \A k \in 1..Len(hits) :
                        shown.innerHTML[k] =
                            <<Marker(hits[k].bias), hits[k].name, hits[k].description>>

\* the tooltip shows the two annotations of a day, and another day has one
C13_Witness ==
    /\ mounted
    /\ tooltip.display = "block"
    /\ Len(tooltip.innerHTML) = 2
    /\ tooltip.innerHTML[1] # tooltip.innerHTML[2]
    /\ \E t \in DOMAIN patternTimeMap :
          /\ Len(patternTimeMap[t]) = 2
          /\ tooltip.innerHTML =
                [k \in 1..2 |-> <<Marker(patternTimeMap[t][k].bias), patternTimeMap[t][k].name,
                                  patternTimeMap[t][k].description>>]
    /\ \E t \in DOMAIN patternTimeMap : Len(patternTimeMap[t]) = 1

(***************************************************************************)
(* SpecPointer: the crosshair at several points of charts of several       *)
(* widths                                                                  *)
(***************************************************************************)
Widths == {300, 600, 900}

PointerXs == {0, 4, 5, 100, 304, 305, 600, 900}

PointerYs == {0, 15, 16, 17, 50}

PointerFeeds ==
    {Feed(Bars(2), <<>>,
          <<[EmptyTA EXCEPT !.patterns =
                <<HoverPattern(1, <<"d", "_", "t">>, <<1, 2>>),
                  HoverPattern(2, <<"f">>, <<2, 3>>)>>]>>)}

InitPointer == InitCommon /\ feed \in PointerFeeds

RefreshPointer ==
    \E on \in BOOLEAN, present \in BOOLEAN :
        Refresh(MkProps(feed.bars, feed.signals,
                        IF present THEN feed.technical_analysis ELSE <<>>,
                        DefaultIndicators, FALSE, FALSE, on, FALSE))

\* a point inside a chart of the given width
PointsIn(width) ==
    {[x |-> x, y |-> y] : x \in {v \in PointerXs : v <= width}, y \in PointerYs}

PointerAt ==
    \E t \in TimeScale(prims), width \in Widths :
        \E point \in PointsIn(width) :
            CrosshairMove([time |-> <<t>>, point |-> <<point>>], width)

PointerLeaves == \E width \in Widths : CrosshairMove([time |-> <<>>, point |-> <<>>], width)

NextPointer == RefreshPointer \/ PointerAt \/ PointerLeaves \/ Unmount

SpecPointer == InitPointer /\ [][NextPointer]_vars

\* C14: a shown tooltip lies inside the chart's width: its left offset is
\* never negative, and for every chart width and every pointer x in
\* [0, width] the offset computed leaves the 280 wide tooltip left of the
\* right edge.
C14_TooltipInsideWidth ==
    /\ tooltip.display = "block" => tooltip.left >= 0
    /\ (mounted /\ subscribed) =>
          \A t \in TimeScale(prims), width \in Widths :
              \A point \in PointsIn(width) :
                  LET shown == DeliverCrosshairMove([time |-> <<t>>, point |-> <<point>>], width)
                  IN  shown.display = "block" => shown.left + 280 <= width

\* C15: a shown tooltip's top offset is never negative, and the handler
\* sets it to max(0, y - 16) for the pointer's y.
C15_TopNeverNegative ==
    /\ tooltip.display = "block" => tooltip.top >= 0
    /\ (mounted /\ subscribed) =>
          \A t \in TimeScale(prims), width \in Widths :
              \A point \in PointsIn(width) :
                  LET shown == DeliverCrosshairMove([time |-> <<t>>, point |-> <<point>>], width)
                  IN  shown.display = "block" =>
                        shown.top = IF point.y - 16 > 0 THEN point.y - 16 ELSE 0

\* the pointer near the top edge: the offset is clamped to 0
C15_Witness ==
    /\ mounted
    /\ tooltip.display = "block"
    /\ tooltip.top = 0
    /\ tooltip.innerHTML # <<>>

(***************************************************************************)
(* SpecIndicator: bars whose indicator fields are null here and there, and *)
(* the indicator toggles                                                   *)
(***************************************************************************)
MaxBars == 3

\* a field's value on day d: not yet available, or a number (zero on odd
\* days)
FieldOptions(d) == {NoValue, IF d % 2 = 1 THEN <<0>> ELSE <<100 + d>>}

\* ema21 is null on every bar, ema50 present on every bar, the others
\* follow v
IndicatorBar(d, v) ==
    [Bar(d) EXCEPT !.ema9 = v, !.ema21 = NoValue, !.ema50 = <<50 + d>>, !.ema200 = v,
                   !.vwap = v, !.rs_vs_spy = v, !.rsi = v, !.volume_sma20 = v]

IndicatorBars ==
    UNION {{[d \in 1..n |-> IndicatorBar(d, vs[d])] :
               vs \in {f \in [1..n -> UNION {FieldOptions(d) : d \in 1..n}] :
                          \A d \in 1..n : f[d] \in FieldOptions(d)}} : n \in 1..MaxBars}

IndicatorFeeds == {Feed(bars, <<>>, <<>>) : bars \in IndicatorBars}

InitIndicator == InitCommon /\ feed \in IndicatorFeeds

IndicatorFields == {"ema9", "ema21", "ema50", "ema200", "vwap", "rs"}

RefreshIndicator ==
    \E ind \in [{"ema9", "ema21", "ema50", "ema200", "vwap", "rs"} -> BOOLEAN] :
        Refresh(MkProps(feed.bars, feed.signals, feed.technical_analysis,
                        [ema9 |-> ind["ema9"], ema21 |-> ind["ema21"], ema50 |-> ind["ema50"],
                         ema200 |-> ind["ema200"], vwap |-> ind["vwap"], rs |-> ind["rs"]],
                        FALSE, FALSE, FALSE, FALSE))

NextIndicator == RefreshIndicator \/ Unmount

SpecIndicator == InitIndicator /\ [][NextIndicator]_vars

Shows(field) ==
    CASE field = "ema9" -> props.showEma9
      [] field = "ema21" -> props.showEma21
      [] field = "ema50" -> props.showEma50
      [] field = "ema200" -> props.showEma200
      [] field = "vwap" -> props.showVwap
      [] OTHER -> props.showRs

\* the bar field behind an indicator line
ValuesOf(bars, field) ==
    [i \in 1..Len(bars) |->
        CASE field = "ema9" -> bars[i].ema9
          [] field = "ema21" -> bars[i].ema21
          [] field = "ema50" -> bars[i].ema50
          [] field = "ema200" -> bars[i].ema200
          [] field = "vwap" -> bars[i].vwap
          [] field = "rs" -> bars[i].rs_vs_spy
          [] field = "rsi" -> bars[i].rsi
          [] OTHER -> bars[i].volume_sma20]

PresentIn(values) == {i \in 1..Len(values) : values[i] # <<>>}

\* data is the subsequence of (normalized time, value) of the bars whose
\* value is present, in bar order
IsProjectionOf(data, bars, values) ==
    /\ Len(data) = Cardinality(PresentIn(values))
    /\ \A i \in PresentIn(values) :
          data[Cardinality({j \in PresentIn(values) : j <= i})] =
              [time |-> toTime(bars[i].timestamp), value |-> values[i][1]]

\* C19: the line of every shown indicator, and the RSI and volume-SMA
\* series of the panels, are the (normalized time, value) pairs of exactly
\* the bars whose field is non-null, in bar order; so no longer than the
\* bars.
C19_ProjectionIsSubsequence ==
    Rendered =>
      /\ \A field \in IndicatorFields :
            Shows(field) =>
              /\ Cardinality(PrimsOf(field, 0)) = 1
              /\ \A k \in PrimsOf(field, 0) :
                    /\ IsProjectionOf(prims[k].data, props.bars, ValuesOf(props.bars, field))
                    /\ Len(prims[k].data) <= Len(props.bars)
      /\ IsProjectionOf(rsiData(props.bars), props.bars, ValuesOf(props.bars, "rsi"))
      /\ IsProjectionOf(smaData(props.bars), props.bars, ValuesOf(props.bars, "sma"))

\* three bars, the field null on the second and zero on the third: a line
\* of two points
C19_Witness ==
    /\ Rendered
    /\ props.showVwap
    /\ Len(props.bars) = 3
    /\ props.bars[1].vwap # <<>>
    /\ props.bars[2].vwap = <<>>
    /\ props.bars[3].vwap = <<0>>
    /\ \E k \in PrimsOf("vwap", 0) : Len(prims[k].data) = 2

AllNull(values) == \A i \in 1..Len(values) : values[i] = <<>>

AllPresent(values) == \A i \in 1..Len(values) : values[i] # <<>>

PanelPrims(panel, cat) == {k \in 1..Len(panel.prims) : panel.prims[k].cat = cat}

\* C20: a field that is null on every bar puts no line on the chart (or
\* panel) and raises nothing; a field present on every bar gives a line
\* with as many points as there are bars.
C20_AllNullRendersNothing ==
    /\ ~crashed
    /\ Rendered =>
          /\ \A field \in IndicatorFields :
                Shows(field) =>
                  /\ AllNull(ValuesOf(props.bars, field)) => PrimsOf(field, 0) = {}
                  /\ AllPresent(ValuesOf(props.bars, field)) =>
                        \E k \in PrimsOf(field, 0) : Len(prims[k].data) = Len(props.bars)
          /\ AllNull(ValuesOf(props.bars, "sma")) =>
                PanelPrims(VolumePanel(props.bars, strict), "volume_sma20") = {}
          /\ AllPresent(ValuesOf(props.bars, "sma")) =>
                \E k \in PanelPrims(VolumePanel(props.bars, strict), "volume_sma20") :
                    Len(VolumePanel(props.bars, strict).prims[k].data) = Len(props.bars)

(***************************************************************************)
(* SpecSnapshot: the data source returns one snapshot after another        *)
(* (useChartData's refetchInterval), each followed by a render             *)
(***************************************************************************)
Signal(entry, action) ==
    [symbol |-> "X", action |-> action, setup_type |-> "breakout", reason |-> "r",
     entry |-> entry, stop_loss |-> entry - 5, target |-> entry + 10, rr_ratio |-> 2,
     confidence |-> 700, timestamp |-> <<1, TSep, 0>>]

SnapshotA ==
    Feed(Bars(2), <<>>,
         <<[support_levels |-> <<Level(50, "support")>>, resistance_levels |-> <<>>,
            trendlines |-> <<CompanionLine>>,
            patterns |-> <<HoverPattern(1, <<"d", "_", "t">>, <<1, 2>>)>>,
            projections |-> <<Projection(70, 286, "measured move")>>]>>)

SnapshotB ==
    Feed(Bars(3), <<Signal(101, "BUY")>>,
         <<[support_levels |-> <<>>, resistance_levels |-> <<Level(60, "resistance")>>,
            trendlines |-> <<>>,
            patterns |-> <<HoverPattern(1, <<"f">>, <<2, 3>>),
                           HoverPattern(2, <<"d", "_", "t">>, <<3, 1>>)>>,
            projections |-> <<>>]>>)

\* bars without a technical analysis, and no bars at all
SnapshotC == Feed(Bars(2), <<Signal(99, "SELL")>>, <<>>)

SnapshotD == Feed(<<>>, <<>>, <<>>)

SnapshotFeeds == {SnapshotA, SnapshotB, SnapshotC, SnapshotD}

InitSnapshot == InitCommon /\ feed \in SnapshotFeeds

\* the query returns new data
Refetch ==
    /\ ~crashed
    /\ feed' \in SnapshotFeeds \ {feed}
    /\ UNCHANGED <<strict, mounted, crashed, props, prims, patternTimeMap, subscribed,
                   cleanup, liveCharts, resizeListeners, thrownAt, tooltip>>

RefreshSnapshot ==
    \E sr \in BOOLEAN, tl \in BOOLEAN, pt \in BOOLEAN, pj \in BOOLEAN :
        Refresh(MkProps(feed.bars, feed.signals, feed.technical_analysis,
                        DefaultIndicators, sr, tl, pt, pj))

NextSnapshot == Refetch \/ RefreshSnapshot \/ Pointer \/ Unmount

SpecSnapshot == InitSnapshot /\ [][NextSnapshot]_vars

\* the entity a primitive was drawn for is an entity of the current props,
\* of a category that is switched on
FromProps(prim) ==
    LET n(xs) == IF HasTA THEN Len(xs) ELSE 0
    IN  CASE prim.cat = "candles" -> prim.data = CandleData(props.bars)
          [] prim.cat \in IndicatorFields -> Shows(prim.cat)
          [] prim.cat = "signal" ->
                /\ prim.idx \in 1..Len(props.signals)
                /\ prim.price = props.signals[prim.idx].entry
          [] prim.cat = "support" ->
                /\ props.showSupportResistance /\ HasTA
                /\ prim.idx \in 1..Len(TA.support_levels)
                /\ prim.price = TA.support_levels[prim.idx].price
          [] prim.cat = "resistance" ->
                /\ props.showSupportResistance /\ HasTA
                /\ prim.idx \in 1..Len(TA.resistance_levels)
                /\ prim.price = TA.resistance_levels[prim.idx].price
          [] prim.cat \in {"trendline", "trendproj"} ->
                /\ props.showTrendlines /\ HasTA
                /\ prim.idx \in 1..Len(TA.trendlines)
                /\ prim.data[1].time \in {toTime(TA.trendlines[prim.idx].start_time),
                                           toTime(TA.trendlines[prim.idx].end_time)}
          [] prim.cat \in {"pattern", "target"} ->
                /\ props.showPatterns /\ HasTA
                /\ prim.idx \in 1..Len(TA.patterns)
                /\ \A k \in 1..Len(prim.data) :
                      prim.data[k].time \in TimesOf(TA.patterns[prim.idx])
          [] prim.cat = "projection" ->
                /\ props.showProjections /\ HasTA
                /\ prim.idx \in 1..Len(TA.projections)
                /\ prim.price = TA.projections[prim.idx].price
          [] OTHER -> FALSE

\* every entry of the hit-index belongs to a pattern of the current props
HitsFromProps ==
    \A t \in DOMAIN patternTimeMap :
        \A k \in 1..Len(patternTimeMap[t]) :
            /\ props.showPatterns /\ HasTA
            /\ \E i \in 1..Len(TA.patterns) :
                  /\ patternTimeMap[t][k].name = PatternName(TA.patterns[i].pattern_type)
                  /\ patternTimeMap[t][k].description = TA.patterns[i].description
                  /\ t \in TimesOf(TA.patterns[i])

\* C16: after any sequence of refreshes there is one chart at most, that of
\* the last refresh: its primitives and the hit-index are those a render
\* pass over the current bars, signals, toggles and technicalAnalysis
\* produces, every one of them drawn for an entity of the current props;
\* the charts and resize listeners of superseded snapshots are gone.
C16_OnlyLatestSnapshot ==
    mounted =>
      /\ liveCharts = IF Len(props.bars) > 0 THEN 1 ELSE 0
      /\ resizeListeners = liveCharts
      /\ \A k \in 1..Len(prims) : FromProps(prims[k])
      /\ HitsFromProps
      /\ Len(props.bars) = 0 => prims = <<>> /\ patternTimeMap = EmptyMap /\ ~subscribed
      /\ Len(props.bars) > 0 =>
            /\ prims = RenderPass(props, strict).prims
            /\ patternTimeMap = RenderPass(props, strict).map

\* the chart of a snapshot without patterns named "F" is live while the
\* tooltip still shows that annotation of a superseded snapshot
C16_Witness ==
    /\ Rendered
    /\ liveCharts = 1
    /\ tooltip.display = "block"
    /\ \E b \in 1..Len(tooltip.innerHTML) : tooltip.innerHTML[b][2] = <<"F">>
    /\ props.showPatterns
    /\ HasTA
    /\ \A i \in 1..Len(TA.patterns) : PatternName(TA.patterns[i].pattern_type) # <<"F">>
    /\ DOMAIN patternTimeMap # {}

\* on a step that is no refresh and no unmount the hit-index stays as it is
HitIndexOnlyRead ==
    (props' = props /\ prims' = prims /\ mounted' = mounted /\ liveCharts' = liveCharts)
        => patternTimeMap' = patternTimeMap

\* the one handler there can be is that of the chart of the last refresh,
\* bound to the hit-index of that refresh
HandlerOfLatest ==
    (mounted /\ subscribed) =>
        /\ liveCharts = 1
        /\ Len(props.bars) > 0
        /\ patternTimeMap = RenderPass(props, strict).map

\* C17: a crosshair move reads the hit-index of the last refresh and leaves
\* it as it is (keys, buckets, bucket order); the handler of a superseded
\* snapshot is gone with its chart.
C17_HitIndexReadOnly == [][HitIndexOnlyRead]_vars /\ []HandlerOfLatest

\* the tooltip shows a bucket of the hit-index, which still holds it
C17_Witness ==
    /\ mounted
    /\ subscribed
    /\ tooltip.display = "block"
    /\ \E t \in DOMAIN patternTimeMap :
          /\ Len(patternTimeMap[t]) = 2
          /\ Len(tooltip.innerHTML) = 2
          /\ \A k \in 1..2 : tooltip.innerHTML[k][2] = patternTimeMap[t][k].name

(***************************************************************************)
(* The toggles                                                             *)
(***************************************************************************)
Toggles ==
    {"showEma9", "showEma21", "showEma50", "showEma200", "showVwap", "showRs",
     "showSupportResistance", "showTrendlines", "showPatterns", "showProjections"}

IsOn(p, toggle) ==
    CASE toggle = "showEma9" -> p.showEma9
      [] toggle = "showEma21" -> p.showEma21
      [] toggle = "showEma50" -> p.showEma50
      [] toggle = "showEma200" -> p.showEma200
      [] toggle = "showVwap" -> p.showVwap
      [] toggle = "showRs" -> p.showRs
      [] toggle = "showSupportResistance" -> p.showSupportResistance
      [] toggle = "showTrendlines" -> p.showTrendlines
      [] toggle = "showPatterns" -> p.showPatterns
      [] OTHER -> p.showProjections

SwitchedOn(p, toggle) ==
    CASE toggle = "showEma9" -> [p EXCEPT !.showEma9 = TRUE]
      [] toggle = "showEma21" -> [p EXCEPT !.showEma21 = TRUE]
      [] toggle = "showEma50" -> [p EXCEPT !.showEma50 = TRUE]
      [] toggle = "showEma200" -> [p EXCEPT !.showEma200 = TRUE]
      [] toggle = "showVwap" -> [p EXCEPT !.showVwap = TRUE]
      [] toggle = "showRs" -> [p EXCEPT !.showRs = TRUE]
      [] toggle = "showSupportResistance" -> [p EXCEPT !.showSupportResistance = TRUE]
      [] toggle = "showTrendlines" -> [p EXCEPT !.showTrendlines = TRUE]
      [] toggle = "showPatterns" -> [p EXCEPT !.showPatterns = TRUE]
      [] OTHER -> [p EXCEPT !.showProjections = TRUE]

\* the categories of primitives a toggle stands for
CatsOf(toggle) ==
    CASE toggle = "showEma9" -> {"ema9"}
      [] toggle = "showEma21" -> {"ema21"}
      [] toggle = "showEma50" -> {"ema50"}
      [] toggle = "showEma200" -> {"ema200"}
      [] toggle = "showVwap" -> {"vwap"}
      [] toggle = "showRs" -> {"rs"}
      [] toggle = "showSupportResistance" -> {"support", "resistance"}
      [] toggle = "showTrendlines" -> {"trendline", "trendproj"}
      [] toggle = "showPatterns" -> {"pattern", "target"}
      [] OTHER -> {"projection"}

RECURSIVE Without(_, _)
Without(ps, cats) ==
    IF ps = <<>> THEN <<>>
    ELSE (IF Head(ps).cat \in cats THEN <<>> ELSE <<Head(ps)>>) \o Without(Tail(ps), cats)

\* C11: after a refresh with a toggle off the chart holds no primitive of
\* that toggle's category, and its primitives of every other category are
\* those the same refresh would have produced with the toggle on; with the
\* patterns toggle off the hit-index is empty.
C11_ToggleGatesOwnCategory ==
    Rendered =>
        \A toggle \in Toggles :
            ~IsOn(props, toggle) =>
              /\ \A k \in 1..Len(prims) : prims[k].cat \notin CatsOf(toggle)
              /\ prims = Without(RenderPass(SwitchedOn(props, toggle), strict).prims,
                                 CatsOf(toggle))
              /\ toggle = "showPatterns" => patternTimeMap = EmptyMap

(***************************************************************************)
(* SpecSignal: signals beside a technical analysis that is well formed or  *)
(* holds a level whose price is not a number, under every setting of the   *)
(* four analysis toggles                                                   *)
(***************************************************************************)
MaxSignals == 2

Signals == {Signal(101, "BUY"), Signal(99, "SELL")}

\* SnapshotB's analysis, and the same with a malformed support level
SignalAnalyses ==
    {SnapshotB.technical_analysis,
     <<[SnapshotB.technical_analysis[1] EXCEPT
           !.support_levels = <<Level(NaP, "support")>>]>>}

SignalFeeds ==
    {Feed(Bars(3), signals, ta) :
        signals \in SeqsUpTo(Signals, MaxSignals), ta \in SignalAnalyses}

InitSignal == InitCommon /\ feed \in SignalFeeds

RefreshSignal ==
    \E sr \in BOOLEAN, tl \in BOOLEAN, pt \in BOOLEAN, pj \in BOOLEAN, present \in BOOLEAN :
        Refresh(MkProps(feed.bars, feed.signals,
                        IF present THEN feed.technical_analysis ELSE <<>>,
                        DefaultIndicators, sr, tl, pt, pj))

NextSignal == RefreshSignal \/ Pointer \/ Unmount

SpecSignal == InitSignal /\ [][NextSignal]_vars

\* the effect body has run on the current props
EffectRan == (mounted \/ crashed) /\ Len(props.bars) > 0

RECURSIVE OfCat(_, _)
OfCat(ps, cat) ==
    IF ps = <<>> THEN <<>>
    ELSE (IF Head(ps).cat = cat THEN <<Head(ps)>> ELSE <<>>) \o OfCat(Tail(ps), cat)

\* C21: whenever the effect has run, the chart was given one dashed price
\* line per signal, in order, at the signal's entry and titled with its
\* action, whatever the four analysis toggles and the technicalAnalysis
\* are; and the hit-index is the one the same props without their signals
\* produce.
C21_OneLinePerSignal ==
    EffectRan =>
      /\ OfCat(prims, "signal") =
            [i \in 1..Len(props.signals) |->
                PriceLine("signal", i, props.signals[i].entry,
                          <<props.signals[i].action, 0, <<>>>>, 2)]
      /\ patternTimeMap = RenderPass([props EXCEPT !.signals = <<>>], strict).map

\* two signals at one entry beside patterns that fill the hit-index, with
\* every analysis toggle on
C21_Witness ==
    /\ Rendered
    /\ Len(props.signals) = 2
    /\ props.signals[1] = props.signals[2]
    /\ Len(OfCat(prims, "signal")) = 2
    /\ HasTA
    /\ props.showSupportResistance /\ props.showTrendlines
    /\ props.showPatterns /\ props.showProjections
    /\ DOMAIN patternTimeMap # {}

(***************************************************************************)
(* Levels and projections: one price line each                             *)
(***************************************************************************)
\* every level and projection of the analysis has a numeric price
NumericPrices ==
    /\ \A i \in 1..Len(TA.support_levels) : IsNumber(TA.support_levels[i].price)
    /\ \A i \in 1..Len(TA.resistance_levels) : IsNumber(TA.resistance_levels[i].price)
    /\ \A i \in 1..Len(TA.projections) : IsNumber(TA.projections[i].price)

\* q is the whole percentage nearest to a confidence given in thousandths
NearestPercent(confidence, q) ==
    /\ 2 * (confidence * 100 - 1000 * q) < 1000
    /\ 2 * (confidence * 100 - 1000 * q) >= -1000

TimeDays == 1..3

Stamps(d) == {<<d>>, <<d, TSep, 12>>, <<d, Blank, 12>>}

AllStamps == UNION {Stamps(d) : d \in TimeDays}

\* the calendar day a timestamp denotes: its date
CalendarDay(ts) == ts[1]

TimeFeeds ==
    {Feed(Bars(3), <<>>,
          <<[EmptyTA EXCEPT !.patterns =
                <<ChartPattern(<<"f">>, <<>>, <<Point(t1, 11), Point(t2, 12)>>,
                               "flag", "bullish")>>]>>) :
        t1 \in AllStamps, t2 \in AllStamps}

InitTime == InitCommon /\ feed \in TimeFeeds

RefreshTime ==
    \E on \in BOOLEAN, present \in BOOLEAN :
        Refresh(MkProps(feed.bars, feed.signals,
                        IF present THEN feed.technical_analysis ELSE <<>>,
                        DefaultIndicators, FALSE, FALSE, on, FALSE))

NextTime == RefreshTime \/ Pointer \/ Unmount

SpecTime == InitTime /\ [][NextTime]_vars

\* C23: a boundary point and a bar have equal keys exactly when they are
\* on the same calendar day, so the bucket the crosshair finds on a bar
\* holds the pattern when one of its boundary points is on the bar's day
\* and is empty when none is.
C23_EqualKeysIffSameDay ==
    \A i \in 1..Len(ShownPatterns) :
        \A b \in 1..Len(props.bars) :
            LET points == ShownPatterns[i].boundary_points
                stamp == props.bars[b].timestamp
                sameDay == {k \in 1..Len(points) :
                               CalendarDay(points[k].time) = CalendarDay(stamp)}
            IN  /\ \A k \in 1..Len(points) :
                      toTime(points[k].time) = toTime(stamp) <=> k \in sameDay
                /\ Lookup(patternTimeMap, toTime(stamp)) # <<>> <=> sameDay # {}

(***************************************************************************)
(* Refreshes and crosshair moves, interleaved.  Each is one task of the    *)
(* page's single thread and runs to its end before the next: the effect    *)
(* fills patternTimeMap (lines 235-304) and subscribes the handler only    *)
(* then (line 307), on a chart that the cleanup of the previous run has    *)
(* not seen.                                                               *)
(***************************************************************************)
\* every pattern of the snapshot is in the bucket of each of its times
AllPatternsRegistered ==
    \A i \in 1..Len(ShownPatterns) :
        \A t \in TimesOf(ShownPatterns[i]) :
            /\ t \in DOMAIN patternTimeMap
            /\ \E k \in 1..Len(patternTimeMap[t]) :
                  patternTimeMap[t][k].name = PatternName(ShownPatterns[i].pattern_type)

\* C24: whenever a handler is subscribed, the hit-index it reads holds
\* every pattern of the snapshot of the last refresh at each of its times
\* and nothing of another snapshot, and what a crosshair move then shows is
\* what the complete index of that snapshot gives.
C24_HandlerSeesCompleteIndex ==
    (mounted /\ subscribed) =>
      /\ Rendered
      /\ AllPatternsRegistered
      /\ HitsFromProps
      /\ \A param \in HoverParams :
            DeliverCrosshairMove(param, HoverWidth) =
                HandleCrosshairMove(tooltip, RenderPass(props, strict).map, param,
                                    HoverWidth)

\* the handler of a snapshot with two patterns is subscribed and has shown
\* a bucket while the data source already holds the next snapshot
C24_Witness ==
    /\ mounted /\ subscribed
    /\ Len(ShownPatterns) = 2
    /\ feed.bars # props.bars
    /\ tooltip.display = "block"
    /\ \E t \in DOMAIN patternTimeMap : Len(patternTimeMap[t]) = 2

\* C25: a tooltip that is shown shows a bucket of the hit-index of the last
\* refresh: its content is the rendering of lookup(t) for a time t of that
\* index, so no tooltip content outlives the refresh that replaced the
\* index it was taken from.
C25_ShownTooltipIsOfLatestIndex ==
    (mounted /\ tooltip.display = "block") =>
        \E t \in DOMAIN patternTimeMap :
            tooltip.innerHTML = TooltipLines(patternTimeMap[t])

(***************************************************************************)
(* Entities whose construction throws inside their try block               *)
(***************************************************************************)
\* the library rejects the line of the trendline or its continuation
TrendlineFails(line) ==
    /\ ~SkipsTrendline(line)
    /\ \/ LibRejectsData(strict, TrendData(line))
       \/ Len(line.projection) > 0 /\ LibRejectsData(strict, ProjData(line))

PolylineOf(pattern) == Dedupe(SortInPlace(MapCopy(BoundaryHeap(pattern))).sorted)

\* the library rejects the polyline of the pattern or its target price
PatternFails(pattern) ==
    \/ HasShape(pattern) /\ Len(PolylineOf(pattern)) >= 2
          /\ LibRejectsData(strict, PolylineOf(pattern))
    \/ HasTarget(pattern) /\ LibRejectsPrice(strict, pattern.target_price[1])

\* C26: a trendline or pattern a part of which the library rejects leaves
\* nothing on the chart (no line, no continuation, no polyline, no target
\* line) and nothing in the hit-index.
C26_FailedEntityLeavesNothing ==
    (Rendered /\ HasTA) =>
      /\ props.showTrendlines =>
            \A i \in 1..Len(TA.trendlines) :
                TrendlineFails(TA.trendlines[i]) =>
                    PrimsOf("trendline", i) \cup PrimsOf("trendproj", i) = {}
      /\ props.showPatterns =>
            \A i \in 1..Len(TA.patterns) :
                PatternFails(TA.patterns[i]) =>
                  /\ PrimsOf("pattern", i) \cup PrimsOf("target", i) = {}
                  /\ \A t \in DOMAIN patternTimeMap :
                        \A k \in 1..Len(patternTimeMap[t]) :
                            patternTimeMap[t][k].description # TA.patterns[i].description

\* C27: with the patterns toggle on, a pattern with a target price, 0
\* included, has exactly one target line on the chart, whatever became of
\* its polyline, and a pattern without a target price has none.
C27_TargetLineIffTargetPresent ==
    \A i \in 1..Len(ShownPatterns) :
        Cardinality(PrimsOf("target", i)) =
            IF ShownPatterns[i].target_price # <<>> THEN 1 ELSE 0

\* C28: there is never more than one chart and one resize listener, a
\* refresh with empty bars leaves none, and while the component is not
\* mounted (before the first mount, after an unmount of whatever cause)
\* none remain.
C28_NoChartOutlivesItsComponent ==
    /\ liveCharts <= 1
    /\ resizeListeners <= 1
    /\ (mounted /\ Len(props.bars) = 0) => (liveCharts = 0 /\ resizeListeners = 0)
    /\ ~mounted => (liveCharts = 0 /\ resizeListeners = 0)

(***************************************************************************)
(* Buckets and display names                                               *)
(***************************************************************************)
\* name is type with every underscore turned into a blank and the first
\* letter of every word in upper case
IsDisplayNameOf(name, type) ==
    /\ Len(name) = Len(type)
    /\ \A j \in 1..Len(type) :
          IF type[j] \in {"_", " "} THEN name[j] = " "
          ELSE IF j = 1 \/ type[j - 1] \in {"_", " "} THEN name[j] = toUpperCase(type[j])
          ELSE name[j] = type[j]

\* C29: every bucket of the hit-index is non-empty, its annotations have
\* pairwise distinct names, each the display name of a shown pattern that
\* touches the bucket's time; two shown patterns with different types and
\* one display name that share a time have one annotation there between
\* them; and a handler is subscribed exactly when the hit-index has a
\* bucket.
C29_BucketsAndDisplayNames ==
    /\ \A t \in DOMAIN patternTimeMap :
          LET bucket == patternTimeMap[t]
          IN  /\ Len(bucket) >= 1
              /\ \A a, b \in 1..Len(bucket) : a # b => bucket[a].name # bucket[b].name
              /\ \A a \in 1..Len(bucket) :
                    \E i \in 1..Len(ShownPatterns) :
                        /\ IsDisplayNameOf(bucket[a].name, ShownPatterns[i].pattern_type)
                        /\ t \in TimesOf(ShownPatterns[i])
              /\ \A i, j \in 1..Len(ShownPatterns) :
                    (/\ ShownPatterns[i].pattern_type # ShownPatterns[j].pattern_type
                     /\ \E n \in {bucket[a].name : a \in 1..Len(bucket)} :
                           /\ IsDisplayNameOf(n, ShownPatterns[i].pattern_type)
                           /\ IsDisplayNameOf(n, ShownPatterns[j].pattern_type)
                     /\ t \in TimesOf(ShownPatterns[i]) \cap TimesOf(ShownPatterns[j]))
                    => Cardinality({a \in 1..Len(bucket) :
                                       IsDisplayNameOf(bucket[a].name,
                                                       ShownPatterns[i].pattern_type)}) = 1
    /\ subscribed <=> DOMAIN patternTimeMap # {}

\* "d_t" and "d t" on one day: one annotation "D T", that of the first
C29_Witness ==
    /\ subscribed
    /\ Len(ShownPatterns) = 2
    /\ ShownPatterns[1].pattern_type = <<"d", "_", "t">>
    /\ ShownPatterns[2].pattern_type = <<"d", " ", "t">>
    /\ \E t \in TimesOf(ShownPatterns[1]) \cap TimesOf(ShownPatterns[2]) :
          /\ t \in DOMAIN patternTimeMap
          /\ Len(patternTimeMap[t]) = 1
          /\ patternTimeMap[t][1].name = <<"D", " ", "T">>
          /\ patternTimeMap[t][1].description = ShownPatterns[1].description

(***************************************************************************)
(* The base variant of CandlestickChart (candlestick-chart.tsx): candles,  *)
(* the five indicator lines and the signal lines; no analysis props, no    *)
(* tooltip element, no crosshair handler                                   *)
(***************************************************************************)
\* the props of the base variant's interface
BaseProps(p) ==
    [bars |-> p.bars, signals |-> p.signals, showEma9 |-> p.showEma9,
     showEma21 |-> p.showEma21, showEma50 |-> p.showEma50, showEma200 |-> p.showEma200,
     showVwap |-> p.showVwap]

\* bars.map((b, i) => values[i] !== null ? {time, value} : null)
BaseMapped(bars, values) ==
    [i \in 1..Len(bars) |->
        IF values[i] # <<>>
        THEN <<[time |-> toTime(bars[i].timestamp), value |-> values[i][1]]>>
        ELSE <<>>]

\* .filter((d) => d !== null)
BaseFiltered(mapped) ==
    LET kept == SelectSeq(mapped, LAMBDA d : d # <<>>)
    IN  [k \in 1..Len(kept) |-> kept[k][1]]

\* an addLine that adds no series for a field without values
BaseAddLineSkipsEmpty(m, s, bars, field, values, show) ==
    IF ~show \/ BaseFiltered(BaseMapped(bars, values)) = <<>> THEN m
    ELSE AddSeries(m, s, "line", field, 0, BaseFiltered(BaseMapped(bars, values)), 0)

\* addLine(values, color, show), the color standing for the field
BaseAddLine(m, s, bars, field, values, show) ==
    IF ~show THEN m
    ELSE AddSeries(m, s, "line", field, 0, BaseFiltered(BaseMapped(bars, values)), 0)

RECURSIVE BaseSignalLoop(_, _, _, _)
BaseSignalLoop(m, s, signals, i) ==
    IF i > Len(signals) THEN m
    ELSE BaseSignalLoop(CreatePriceLine(m, s, "signal", i, signals[i].entry,
                                        <<signals[i].action, 0, <<>>>>, 2),
                        s, signals, i + 1)

\* the effect body of the base variant from createChart to fitContent,
\* given non-empty bars
BaseRenderPass(p, s) ==
    LET m0 == AddSeries(Machine0, s, "candles", "candles", 0,
                        [i \in 1..Len(p.bars) |->
                            [time |-> toTime(p.bars[i].timestamp), open |-> p.bars[i].open,
                             high |-> p.bars[i].high, low |-> p.bars[i].low,
                             close |-> p.bars[i].close, value |-> p.bars[i].close]], 0)
        m1 == BaseAddLine(m0, s, p.bars, "ema9", [i \in 1..Len(p.bars) |-> p.bars[i].ema9],
                          p.showEma9)
        m2 == BaseAddLine(m1, s, p.bars, "ema21", [i \in 1..Len(p.bars) |-> p.bars[i].ema21],
                          p.showEma21)
        m3 == BaseAddLine(m2, s, p.bars, "ema50", [i \in 1..Len(p.bars) |-> p.bars[i].ema50],
                          p.showEma50)
        m4 == BaseAddLine(m3, s, p.bars, "ema200",
                          [i \in 1..Len(p.bars) |-> p.bars[i].ema200], p.showEma200)
        m5 == BaseAddLine(m4, s, p.bars, "vwap", [i \in 1..Len(p.bars) |-> p.bars[i].vwap],
                          p.showVwap)
    IN  BaseSignalLoop(m5, s, p.signals, 1)

\* what the base variant's chart holds once its effect has run on p
BaseChart(p, s) == IF Len(p.bars) = 0 THEN <<>> ELSE BaseRenderPass(p, s).prims

(***************************************************************************)
(* SpecVariant: the overlay variant rendered as the base variant is: RS    *)
(* off, and the analysis absent or its four toggles off, under every       *)
(* setting of the five indicator toggles                                   *)
(***************************************************************************)
VariantBars ==
    {<<>>, Bars(2),
     <<IndicatorBar(1, NoValue), IndicatorBar(2, <<102>>), IndicatorBar(3, <<0>>)>>}

VariantSignals ==
    {<<>>, <<Signal(101, "BUY")>>, <<Signal(101, "BUY"), Signal(99, "SELL")>>}

VariantFeeds ==
    {Feed(bars, signals, SnapshotB.technical_analysis) :
        bars \in VariantBars, signals \in VariantSignals}

InitVariant == InitCommon /\ feed \in VariantFeeds

RefreshVariant ==
    \E ind \in [{"ema9", "ema21", "ema50", "ema200", "vwap"} -> BOOLEAN], present \in BOOLEAN :
        Refresh(MkProps(feed.bars, feed.signals,
                        IF present THEN feed.technical_analysis ELSE <<>>,
                        [ema9 |-> ind["ema9"], ema21 |-> ind["ema21"], ema50 |-> ind["ema50"],
                         ema200 |-> ind["ema200"], vwap |-> ind["vwap"], rs |-> FALSE],
                        FALSE, FALSE, FALSE, FALSE))

NextVariant == RefreshVariant \/ Pointer \/ Unmount

SpecVariant == InitVariant /\ [][NextVariant]_vars

\* RS off, and the analysis absent or all four analysis toggles off
BaseConfiguration ==
    /\ ~props.showRs
    /\ \/ ~HasTA
       \/ /\ ~props.showSupportResistance /\ ~props.showTrendlines
          /\ ~props.showPatterns /\ ~props.showProjections

====
